---- MODULE Spec2Model ----
(***************************************************************************)
(* A model of mercury_crawler.py: the URL collector, the record extractor  *)
(* and the crawl driver of MercuryCrawler, together with main(), which     *)
(* owns the rendering resource (the Selenium driver).                      *)
(*                                                                         *)
(* Text is modelled as a sequence of tokens.  An address is cut at every   *)
(* "/" (the "/" is a token of its own), so that the substring, prefix and  *)
(* equality tests of the code are tests on token sequences.                *)
(***************************************************************************)
EXTENDS Integers, Sequences, FiniteSets, TLC

\* ------------------------------------------------------------------------
\* Bounds of the model
\* ------------------------------------------------------------------------

\* anchors on the directory page, when the collector is checked on its own
MaxAnchors == 3

\* anchors on the directory page in a whole run of main()
MaxLinks == 2

\* anchors on a detail page, when the contact classification is checked
MaxContactLinks == 3

\* characters of the paragraph the list parser is checked on
MaxTextLen == 4

\* elements of a detail page, when the field locator is checked
MaxNodes == 4

\* calls a caller makes on one crawler, when the calls are made one by one
MaxCalls == 2

\* ------------------------------------------------------------------------
\* Text helpers
\* ------------------------------------------------------------------------

\* Python: s.startswith(p)
StartsWith(s, p) ==
    /\ Len(p) <= Len(s)
    /\ SubSeq(s, 1, Len(p)) = p

\* Python: sub in s
Contains(s, sub) ==
    \E k \in 0..(Len(s) - Len(sub)) : SubSeq(s, k + 1, k + Len(sub)) = sub

\* Python: x in list
InList(x, list) == \E k \in 1..Len(list) : list[k] = x

\* ------------------------------------------------------------------------
\* Addresses
\* ------------------------------------------------------------------------

\* self.base_url = "https://mercury.com"
base_url == <<"https:", "/", "/", "mercury.com">>

\* the literal '/investor-database/' of the filter
detail_segment == <<"/", "investor-database", "/">>

\* the literal '/investor-database' of the filter
directory_path == <<"/", "investor-database">>

\* urllib.parse.urljoin(base, href) for a base without a path and a
\* reference that starts with "/": a reference "//host/..." names another
\* host and only takes the scheme of the base; a reference with an empty
\* host ("//" followed by "/" or by nothing) and a reference "/path" keep the
\* host of the base and replace its path.
urljoin(base, href) ==
    IF Len(href) >= 3 /\ href[1] = "/" /\ href[2] = "/" /\ href[3] # "/"
    THEN <<base[1]>> \o href
    ELSE IF Len(href) >= 2 /\ href[1] = "/" /\ href[2] = "/"
         THEN base \o SubSeq(href, 3, Len(href))
         ELSE base \o href

\* the filter of the collector's loop: the target is a detail-page link
IsInvestorLink(href) ==
    /\ Contains(href, detail_segment)
    /\ href # directory_path

\* the address the collector makes of a kept target
FullUrl(href) ==
    IF StartsWith(href, <<"/">>) THEN urljoin(base_url, href) ELSE href

\* AppendIfNew without the membership test
AppendAlways(urls, full_url) == Append(urls, full_url)

\* the append of a new address to the output
AppendIfNew(urls, full_url) ==
    IF InList(full_url, urls) THEN urls ELSE Append(urls, full_url)

\* one turn of the collector's loop over the anchors
CollectLink(urls, href) ==
    IF IsInvestorLink(href) THEN AppendIfNew(urls, FullUrl(href)) ELSE urls

RECURSIVE CollectFrom(_, _)
CollectFrom(urls, links) ==
    IF links = <<>> THEN urls
    ELSE CollectFrom(CollectLink(urls, Head(links)), Tail(links))

\* the collector's loop: investor_urls of the anchors of the page
CollectUrls(links) == CollectFrom(<<>>, links)

\* anchor targets a directory page may carry
HrefRelA == <<"/", "investor-database", "/", "a">>
HrefAbsA == base_url \o <<"/", "investor-database", "/", "a">>
HrefRelB == <<"/", "investor-database", "/", "b">>
HrefBare == <<"/", "investor-database">>
HrefSlash == <<"/", "investor-database", "/">>
HrefQuery == <<"/", "investor-database", "?perPage=All">>
HrefOther == <<"https:", "/", "/", "evil.com", "/", "investor-database", "/", "x">>
HrefNoScheme == <<"/", "/", "evil.com", "/", "investor-database", "/", "x">>
HrefAbout == <<"/", "about">>
HrefEmpty == <<>>

Hrefs ==
    {HrefRelA, HrefAbsA, HrefRelB, HrefBare, HrefSlash, HrefQuery,
     HrefOther, HrefNoScheme, HrefAbout, HrefEmpty}

SeqsUpTo(S, n) == UNION {[1..m -> S] : m \in 0..n}

\* ------------------------------------------------------------------------
\* Page text: a sequence of one-character strings
\* ------------------------------------------------------------------------

\* the delimiter class [,;•·\n] of the list parser
Delimiters == {",", ";", "BULLET", "MIDDOT", "\n"}

\* the characters str.strip() removes
Whitespace == {" ", "\t", "\n"}

RECURSIVE LStrip(_)
LStrip(s) ==
    IF s # <<>> /\ Head(s) \in Whitespace THEN LStrip(Tail(s)) ELSE s

RECURSIVE RStrip(_)
RStrip(s) ==
    IF s # <<>> /\ s[Len(s)] \in Whitespace
    THEN RStrip(SubSeq(s, 1, Len(s) - 1))
    ELSE s

\* Python: s.strip()
Strip(s) == RStrip(LStrip(s))

\* Python: re.split(r'[,;...]', text): the pieces between the delimiters,
\* empty pieces included
RECURSIVE SplitFrom(_, _, _)
SplitFrom(text, piece, pieces) ==
    IF text = <<>> THEN Append(pieces, piece)
    ELSE IF Head(text) \in Delimiters
         THEN SplitFrom(Tail(text), <<>>, Append(pieces, piece))
         ELSE SplitFrom(Tail(text), Append(piece, Head(text)), pieces)

ReSplit(text) == SplitFrom(text, <<>>, <<>>)

\* KeepItem that keeps the pieces of one character
KeepItemNonEmpty(cleaned) == cleaned # <<>>

\* the filter of the list parser: a cleaned piece is kept
KeepItem(cleaned) == cleaned # <<>> /\ Len(cleaned) > 1

RECURSIVE CleanItems(_)
CleanItems(items) ==
    IF items = <<>> THEN <<>>
    ELSE LET cleaned == Strip(Head(items))
         IN  IF KeepItem(cleaned)
             THEN <<cleaned>> \o CleanItems(Tail(items))
             ELSE CleanItems(Tail(items))

\* _parse_list_field
ParseListField(text) ==
    IF text = <<>> THEN <<>> ELSE CleanItems(ReSplit(text))

\* the text of n characters "x"
Filler(n) == [k \in 1..n |-> "x"]

\* the least length a bio must exceed
BioMinLen == 50

\* Python: str.lower(), one character
LowerChar(c) ==
    CASE c = "A" -> "a"
      [] c = "B" -> "b"
      [] c = "C" -> "c"
      [] c = "D" -> "d"
      [] c = "E" -> "e"
      [] c = "F" -> "f"
      [] c = "G" -> "g"
      [] c = "H" -> "h"
      [] c = "I" -> "i"
      [] c = "J" -> "j"
      [] c = "K" -> "k"
      [] c = "L" -> "l"
      [] c = "M" -> "m"
      [] c = "N" -> "n"
      [] c = "O" -> "o"
      [] c = "P" -> "p"
      [] c = "Q" -> "q"
      [] c = "R" -> "r"
      [] c = "S" -> "s"
      [] c = "T" -> "t"
      [] c = "U" -> "u"
      [] c = "V" -> "v"
      [] c = "W" -> "w"
      [] c = "X" -> "x"
      [] c = "Y" -> "y"
      [] c = "Z" -> "z"
      [] OTHER -> c

\* Python: s.lower()
Lower(s) == [k \in 1..Len(s) |-> LowerChar(s[k])]

\* Python: s.replace(old, ''): every occurrence of old, from the left, is
\* cut out
RECURSIVE Remove(_, _)
Remove(s, old) ==
    IF s = <<>> THEN <<>>
    ELSE IF StartsWith(s, old)
         THEN Remove(SubSeq(s, Len(old) + 1, Len(s)), old)
         ELSE <<Head(s)>> \o Remove(Tail(s), old)

\* ------------------------------------------------------------------------
\* The markup of a detail page
\* ------------------------------------------------------------------------

\* The elements of a page in document order.  An element has a tag, a
\* class ("marker" stands for arcadia-heading-9), its text and the position
\* of its parent, 0 for the top of the document.  Headings and paragraphs
\* hold text only; a div holds elements.
Node(tag, cls, text, parent) ==
    [tag |-> tag, cls |-> cls, text |-> text, parent |-> parent]

\* the ancestors of the element at position k, itself included
RECURSIVE AncestorsOrSelf(_, _)
AncestorsOrSelf(dom, k) ==
    IF k = 0 THEN {0} ELSE {k} \cup AncestorsOrSelf(dom, dom[k].parent)

\* the sequence is the document order of a tree: a parent is a div that
\* comes before its child, and is still open when the child starts
WellFormed(dom) ==
    \A k \in 1..Len(dom) :
        /\ dom[k].parent \in 0..(k - 1)
        /\ dom[k].parent # 0 => dom[dom[k].parent].tag = "div"
        /\ k > 1 => dom[k].parent \in AncestorsOrSelf(dom, k - 1)

\* element.get_text(strip=True) of a heading or a paragraph
GetTextStripped(node) == Strip(node.text)

\* the least position of a set of positions, 0 when there is none
FirstOf(positions) ==
    IF positions = {} THEN 0
    ELSE CHOOSE k \in positions : \A j \in positions : k <= j

\* soup.find_all('h3', class_='arcadia-heading-9'), as positions in
\* document order
MarkerHeadings(dom) ==
    {k \in 1..Len(dom) : dom[k].tag = "h3" /\ dom[k].cls = "marker"}

\* h3.get_text().strip().lower() == field_name.lower()
HeadingMatches(node, field_name) ==
    Lower(Strip(node.text)) = Lower(field_name)

\* h3.find_next_sibling('p')
NextSiblingP(dom, k) ==
    FirstOf({j \in (k + 1)..Len(dom) :
                dom[j].tag = "p" /\ dom[j].parent = dom[k].parent})

\* h3.parent.find_next('p'): the first paragraph after the start of the
\* parent, inside it or behind it
ParentNextP(dom, k) ==
    FirstOf({j \in (dom[k].parent + 1)..Len(dom) : dom[j].tag = "p"})

\* the paragraph the loop's body finds for the heading at k, 0 if none
ParagraphFor(dom, k) ==
    LET next_p == NextSiblingP(dom, k)
    IN  IF next_p # 0 THEN next_p ELSE ParentNextP(dom, k)

\* the headings at which the loop of _extract_structured_field returns
ReturningHeadings(dom, field_name) ==
    {k \in MarkerHeadings(dom) :
        HeadingMatches(dom[k], field_name) /\ ParagraphFor(dom, k) # 0}

\* the heading _extract_structured_field takes its paragraph from, 0 if
\* the loop runs to its end
UsedHeading(dom, field_name) == FirstOf(ReturningHeadings(dom, field_name))

\* _extract_structured_field
ExtractStructuredField(dom, field_name) ==
    LET h3 == UsedHeading(dom, field_name)
    IN  IF h3 = 0 THEN <<>> ELSE GetTextStripped(dom[ParagraphFor(dom, h3)])

\* the labels scrape_investor_data looks up
StagesLabel == <<"S", "t", "a", "g", "e", "s">>
CheckRangeLabel == <<"C", "h", "e", "c", "k", " ", "R", "a", "n", "g", "e">>
GeographyLabel == <<"G", "e", "o", "g", "r", "a", "p", "h", "y">>
BioLabel == <<"B", "i", "o">>

\* soup.find('h3', string=re.compile(r'bio', re.I)) and
\* bio_heading.find_next(['p', 'div']).get_text(strip=True)
BioFallback(dom) ==
    LET heading == FirstOf({k \in 1..Len(dom) :
                               /\ dom[k].tag = "h3"
                               /\ Contains(Lower(dom[k].text), Lower(BioLabel))})
        next_element == IF heading = 0 THEN 0
                        ELSE FirstOf({j \in (heading + 1)..Len(dom) :
                                         dom[j].tag \in {"p", "div"}})
    IN  IF next_element = 0 THEN <<>> ELSE GetTextStripped(dom[next_element])

\* bio_content of scrape_investor_data
BioContent(dom) ==
    LET bio_content == ExtractStructuredField(dom, BioLabel)
    IN  IF bio_content # <<>> THEN bio_content ELSE BioFallback(dom)

\* ------------------------------------------------------------------------
\* The contact links of a detail page
\* ------------------------------------------------------------------------

\* an anchor with a target: link['href'] and link.get_text()
Anchor(href, text) == [href |-> href, text |-> text]

\* the literals of the classification
MercuryTerms == {<<"m", "e", "r", "c", "u", "r", "y", "h", "q">>, <<"m", "e", "r", "c", "u", "r", "y", ".", "c", "o", "m">>, <<"a", "p", "p", ".", "m", "e", "r", "c", "u", "r", "y">>}
MailtoPrefix == <<"m", "a", "i", "l", "t", "o", ":">>
LinkedinProfile == <<"l", "i", "n", "k", "e", "d", "i", "n", ".", "c", "o", "m", "/", "i", "n", "/">>
TwitterDomains == {<<"t", "w", "i", "t", "t", "e", "r", ".", "c", "o", "m">>, <<"x", ".", "c", "o", "m">>}
MercuryPath == <<"/", "m", "e", "r", "c", "u", "r", "y">>
HttpPrefix == <<"h", "t", "t", "p">>
BaseUrlText == <<"h", "t", "t", "p", "s", ":", "/", "/", "m", "e", "r", "c", "u", "r", "y", ".", "c", "o", "m">>
PersonalIndicators == {<<"w", "e", "b", "s", "i", "t", "e">>, <<"b", "l", "o", "g">>, <<"p", "e", "r", "s", "o", "n", "a", "l">>}

\* "Skip Mercury's general social links"
IsMercuryLink(href) == \E term \in MercuryTerms : Contains(href, term)

\* the branch of the if/elif chain an anchor takes: the key it stores
\* under, or "none"
Category(anchor) ==
    IF IsMercuryLink(anchor.href) THEN "none"
    ELSE IF Contains(anchor.href, MailtoPrefix) THEN "email"
    ELSE IF Contains(anchor.href, LinkedinProfile) THEN "linkedin"
    ELSE IF /\ \E domain \in TwitterDomains : Contains(anchor.href, domain)
            /\ ~Contains(anchor.href, MercuryPath)
         THEN "twitter"
    ELSE IF /\ StartsWith(anchor.href, HttpPrefix)
            /\ ~Contains(anchor.href, BaseUrlText)
            /\ \E word \in PersonalIndicators : Contains(Lower(anchor.text), word)
         THEN "website"
    ELSE "none"

\* the value an anchor stores under its key
StoredValue(anchor) ==
    IF Category(anchor) = "email" THEN Remove(anchor.href, MailtoPrefix)
    ELSE anchor.href

\* Overwrite that keeps a value already stored: the first match wins
OverwriteIfEmpty(contacts, key, value) ==
    IF contacts[key] = <<>> THEN [contacts EXCEPT ![key] = value] ELSE contacts

\* the assignment personal_contacts[key] = value
Overwrite(contacts, key, value) == [contacts EXCEPT ![key] = value]

\* one turn of the loop over the anchors
ClassifyLink(contacts, anchor) ==
    LET key == Category(anchor)
    IN  IF key = "none" THEN contacts
        ELSE Overwrite(contacts, key, StoredValue(anchor))

RECURSIVE ClassifyFrom(_, _)
ClassifyFrom(contacts, anchors) ==
    IF anchors = <<>> THEN contacts
    ELSE ClassifyFrom(ClassifyLink(contacts, Head(anchors)), Tail(anchors))

\* personal_contacts before the loop
NoContacts == [email |-> <<>>, linkedin |-> <<>>, twitter |-> <<>>, website |-> <<>>]

\* personal_contacts after the loop
PersonalContacts(anchors) == ClassifyFrom(NoContacts, anchors)

\* ------------------------------------------------------------------------
\* Detail pages, as the extractor's helpers see them
\* ------------------------------------------------------------------------

\* _get_name_from_url: the last "/"-separated piece of the address
LastSegment(url) ==
    IF url = <<>> \/ url[Len(url)] = "/" THEN "" ELSE url[Len(url)]

\* str.replace('-', ' ').title() on the slugs of the model
TitleOf(slug) ==
    CASE slug = "a" -> "A"
      [] slug = "b" -> "B"
      [] slug = "x" -> "X"
      [] slug = "jane-doe" -> "Jane Doe"
      [] OTHER -> slug

NameFromUrl(url) == TitleOf(LastSegment(url))

\* a parsed page: the text of the h1, of the name selectors and of the first
\* element that mentions "investor", the texts of the industry links, the
\* headings and paragraphs of the labelled sections, the anchors of the page
\* and the links of the Contact Links section
FullPage ==
    [h1 |-> "Jane Doe",
     name_selector |-> "",
     investor_text |-> "Investor Database",
     industries |-> <<"Fintech", "SaaS">>,
     dom |-> <<Node("h3", "marker", StagesLabel, 0),
               Node("p", "", <<"S", "e", "e", "d", ",", " ", "A", "1", ";", "B">>, 0),
               Node("h3", "marker", CheckRangeLabel, 0),
               Node("p", "", <<" ", "$", "1", "k", " ">>, 0),
               Node("h3", "marker", GeographyLabel, 0),
               Node("p", "", <<"U", "S", "\n", "E", "U">>, 0),
               Node("h3", "marker", BioLabel, 0),
               Node("p", "", Filler(BioMinLen + 1), 0)>>,
     anchors |-> <<Anchor(<<"m", "a", "i", "l", "t", "o", ":", "j", "a", "n", "e", "@", "x", ".", "c", "o", "m">>,
                          <<"E", "m", "a", "i", "l">>),
                   Anchor(<<"h", "t", "t", "p", "s", ":", "/", "/", "l", "i", "n", "k", "e", "d", "i", "n", ".", "c", "o", "m", "/", "i", "n", "/", "j", "a", "n", "e">>,
                          <<"L", "i", "n", "k", "e", "d", "I", "n">>),
                   Anchor(<<"h", "t", "t", "p", "s", ":", "/", "/", "m", "e", "r", "c", "u", "r", "y", ".", "c", "o", "m", "/", "b", "l", "o", "g">>,
                          <<"B", "l", "o", "g">>)>>,
     contact_info |-> << <<"Email", "jane@x.com">> >>]

\* a page on which no helper finds anything, with a bio that is too short
BarePage ==
    [h1 |-> "",
     name_selector |-> "",
     investor_text |-> "",
     industries |-> <<>>,
     dom |-> <<Node("h3", "marker", BioLabel, 0),
               Node("p", "", Filler(BioMinLen), 0)>>,
     anchors |-> <<>>,
     contact_info |-> <<>>]

Pages == {FullPage, BarePage}

NoPage == [none |-> TRUE]

\* the messages of the faults a statement of scrape_investor_data may raise:
\* the driver fails in the statements that use it, the parsing helpers fail
\* in the others
MessagesAt(step) ==
    IF step \in {"s_setup", "s_get", "s_soup"} THEN {"WebDriverException"}
    ELSE IF step = "s_name" THEN {"AttributeError", "TypeError"}
    ELSE {"AttributeError"}

\* ------------------------------------------------------------------------
\* Records
\* ------------------------------------------------------------------------

DefaultContacts == [email |-> <<>>, linkedin |-> <<>>, twitter |-> <<>>, website |-> <<>>]

\* the contact_info of a record nothing was stored in: no (label, target)
EmptyInfo == <<>>

\* investor_data as scrape_investor_data creates it
DefaultRecord(url) ==
    [url |-> url,
     name |-> "",
     industries |-> <<>>,
     stages |-> <<>>,
     check_range |-> <<>>,
     bio |-> <<>>,
     geography |-> <<>>,
     contacts |-> DefaultContacts,
     contact_info |-> EmptyInfo,
     status |-> "pending"]

NoRecord == [none |-> TRUE]

NoResult == [none |-> TRUE]

\* the result of a run that found no address
NoUrlsResult == [error |-> "No URLs found"]

\* f"{(successful_scrapes/len(investor_urls)*100):.1f}%", in tenths of a
\* percent, rounded to the nearest tenth
SuccessRate(successes, total) == (2000 * successes + total) \div (2 * total)

\* ------------------------------------------------------------------------
\* State
\* ------------------------------------------------------------------------

VARIABLES
    pc,                  \* the statement main() and its callees are at
    driver,              \* self.driver: "None" or "Chrome"
    created,             \* browsers started by webdriver.Chrome(...)
    open,                \* browsers started and not yet quit
    links,               \* collect_investor_urls: the anchors of the page
    investor_urls,       \* the collector's output, crawl's investor_urls
    i,                   \* crawl_all_investors: the loop counter
    investor_data,       \* scrape_investor_data: the record being filled
    soup,                \* scrape_investor_data: the parsed page
    investors_data,      \* crawl_all_investors: the records appended
    successful_scrapes,  \* crawl_all_investors
    failed_scrapes,      \* crawl_all_investors
    sleeps,              \* calls of time.sleep(self.delay) so far
    scraped,             \* addresses scrape_investor_data was called with
    raised,              \* faults raised inside scrape_investor_data: <<i, step, message>>
    data,                \* main: what crawl_all_investors returned
    outcome,             \* how main() went: the branch it printed
    escaped              \* the statement whose exception reached main()

vars ==
    <<pc, driver, created, open, links, investor_urls, i, investor_data,
      soup, investors_data, successful_scrapes, failed_scrapes, sleeps,
      scraped, raised, data, outcome, escaped>>

resourceVars == <<driver, created, open>>
loopVars == <<i, investors_data, successful_scrapes, failed_scrapes, sleeps, scraped>>
scrapeVars == <<investor_data, soup, raised>>

\* the directory pages a whole run may load
RunHrefs == {HrefRelA, HrefAbsA, HrefRelB, HrefOther, HrefAbout}
RunMarkups == SeqsUpTo(RunHrefs, MaxLinks)

\* MercuryCrawler.__init__ and the entry of main()
Init ==
    /\ pc = "main"
    /\ driver = "None"
    /\ created = 0
    /\ open = 0
    /\ links = <<>>
    /\ investor_urls = <<>>
    /\ i = 0
    /\ investor_data = NoRecord
    /\ soup = NoPage
    /\ investors_data = <<>>
    /\ successful_scrapes = 0
    /\ failed_scrapes = 0
    /\ sleeps = 0
    /\ scraped = <<>>
    /\ raised = <<>>
    /\ data = NoResult
    /\ outcome = "running"
    /\ escaped = "none"

\* ------------------------------------------------------------------------
\* The rendering resource
\* ------------------------------------------------------------------------

\* setup_driver, when webdriver.Chrome(...) returns a browser
SetupDriverOk ==
    /\ driver' = "Chrome"
    /\ created' = created + 1
    /\ open' = open + 1

\* NeedsDriver of a method that starts a browser at every call
NeedsDriverAlways(held) == TRUE

\* "if not self.driver"
NeedsDriver(held) == held = "None"

\* Cleanup that does not quit the browser
CleanupNoQuit == UNCHANGED resourceVars

\* cleanup
Cleanup ==
    IF driver # "None"
    THEN /\ open' = open - 1
         /\ UNCHANGED <<driver, created>>
    ELSE UNCHANGED resourceVars

\* ------------------------------------------------------------------------
\* main(): what leaves crawl_all_investors
\* ------------------------------------------------------------------------

\* an Exception that reaches main(): "except Exception" prints it
Fatal ==
    /\ pc' = "finally"
    /\ outcome' = "fatal"
    /\ escaped' = pc

\* a KeyboardInterrupt that reaches main()
Interrupted ==
    /\ pc' = "finally"
    /\ outcome' = "interrupted"
    /\ escaped' = pc

\* main() goes on: nothing was raised
Quiet == UNCHANGED <<outcome, escaped>>

\* main() calls crawl_all_investors, which calls collect_investor_urls
MainStart ==
    /\ pc = "main"
    /\ pc' = "c_setup"
    /\ UNCHANGED <<resourceVars, links, investor_urls, loopVars, scrapeVars, data, outcome, escaped>>

\* ------------------------------------------------------------------------
\* collect_investor_urls
\* ------------------------------------------------------------------------

\* if not self.driver: self.setup_driver()
CollectSetup ==
    /\ pc = "c_setup"
    /\ IF NeedsDriver(driver)
       THEN \/ /\ SetupDriverOk
               /\ pc' = "c_get"
               /\ Quiet
            \/ /\ Fatal
               /\ UNCHANGED resourceVars
       ELSE /\ pc' = "c_get"
            /\ Quiet
            /\ UNCHANGED resourceVars
    /\ UNCHANGED <<links, investor_urls, loopVars, scrapeVars, data>>

\* self.driver.get(self.database_url)
CollectGet ==
    /\ pc = "c_get"
    /\ \/ /\ pc' = "c_wait"
          /\ Quiet
       \/ Fatal
    /\ UNCHANGED <<resourceVars, links, investor_urls, loopVars, scrapeVars, data>>

\* the wait for the body and the parse of the page source; a fault of the
\* wait makes the collector return []
CollectWait ==
    /\ pc = "c_wait"
    /\ \/ /\ \E m \in RunMarkups : links' = m
          /\ pc' = "c_links"
          /\ Quiet
          /\ UNCHANGED investor_urls
       \/ /\ investor_urls' = <<>>
          /\ pc' = "c_return"
          /\ Quiet
          /\ UNCHANGED links
       \/ /\ Fatal
          /\ UNCHANGED <<links, investor_urls>>
    /\ UNCHANGED <<resourceVars, loopVars, scrapeVars, data>>

\* the loop over the anchors
CollectLinks ==
    /\ pc = "c_links"
    /\ investor_urls' = CollectUrls(links)
    /\ pc' = "c_return"
    /\ UNCHANGED <<resourceVars, links, loopVars, scrapeVars, data, outcome, escaped>>

\* ------------------------------------------------------------------------
\* crawl_all_investors
\* ------------------------------------------------------------------------

\* NoUrls when the early return is missing
NoUrlsNever(urls) == FALSE

\* "if not investor_urls"
NoUrls(urls) == urls = <<>>

\* the collector has returned: the early return and the loop's locals
CrawlCollected ==
    /\ pc = "c_return"
    /\ links' = <<>>
    /\ IF NoUrls(investor_urls)
       THEN /\ data' = NoUrlsResult
            /\ pc' = "main_result"
       ELSE /\ data' = data
            /\ pc' = "loop"
    /\ UNCHANGED <<resourceVars, investor_urls, loopVars, scrapeVars, outcome, escaped>>

\* for i, url in enumerate(investor_urls, 1): the call of
\* scrape_investor_data(url), which creates the record
CrawlNext ==
    /\ pc = "loop"
    /\ i < Len(investor_urls)
    /\ i' = i + 1
    /\ investor_data' = DefaultRecord(investor_urls[i + 1])
    /\ scraped' = Append(scraped, investor_urls[i + 1])
    /\ pc' = "s_setup"
    /\ UNCHANGED <<resourceVars, links, investor_urls, investors_data,
                   successful_scrapes, failed_scrapes, sleeps, soup, raised,
                   data, outcome, escaped>>

\* investors_data.append(investor_data) and the count of its status
AppendRecord(records, record) == Append(records, record)

CountSuccess(record) == IF record.status = "success" THEN 1 ELSE 0

\* CountFailure that misses the records with status error
CountFailurePendingOnly(record) == IF record.status = "pending" THEN 1 ELSE 0

CountFailure(record) == IF record.status = "success" THEN 0 ELSE 1

\* DelayFollows with "<=": a delay after the last extraction too
DelayFollowsLast(k, n) == k <= n

\* "if i < len(investor_urls)": the delay follows
DelayFollows(k, n) == k < n

\* scrape_investor_data has returned: append, count, and the test of the delay
CrawlRecord ==
    /\ pc = "s_return"
    /\ investors_data' = AppendRecord(investors_data, investor_data)
    /\ successful_scrapes' = successful_scrapes + CountSuccess(investor_data)
    /\ failed_scrapes' = failed_scrapes + CountFailure(investor_data)
    /\ investor_data' = NoRecord
    /\ soup' = NoPage
    /\ pc' = IF DelayFollows(i, Len(investor_urls)) THEN "sleep" ELSE "loop"
    /\ UNCHANGED <<resourceVars, links, investor_urls, i, sleeps, scraped,
                   raised, data, outcome, escaped>>

\* time.sleep(self.delay)
CrawlSleep ==
    /\ pc = "sleep"
    /\ sleeps' = sleeps + 1
    /\ pc' = "loop"
    /\ UNCHANGED <<resourceVars, links, investor_urls, i, investors_data,
                   successful_scrapes, failed_scrapes, scraped, scrapeVars,
                   data, outcome, escaped>>

\* the final result
Summary ==
    [metadata |->
        [total_investors |-> Len(investor_urls),
         successful_scrapes |-> successful_scrapes,
         failed_scrapes |-> failed_scrapes,
         success_rate |-> SuccessRate(successful_scrapes, Len(investor_urls))],
     investors |-> investors_data]

\* the loop is over: the result is compiled and returned; the division by
\* len(investor_urls) raises ZeroDivisionError when the list is empty
CrawlSummary ==
    /\ pc = "loop"
    /\ ~(i < Len(investor_urls))
    /\ IF Len(investor_urls) = 0
       THEN /\ pc' = "finally"
            /\ outcome' = "fatal"
            /\ escaped' = "zero_division"
            /\ data' = data
       ELSE /\ data' = Summary
            /\ pc' = "main_result"
            /\ Quiet
    /\ UNCHANGED <<resourceVars, links, investor_urls, loopVars, scrapeVars>>

\* ------------------------------------------------------------------------
\* main(): after crawl_all_investors
\* ------------------------------------------------------------------------

\* if "error" not in data: save_to_json, which may raise, else the report of
\* the failure
MainResult ==
    /\ pc = "main_result"
    /\ IF "error" \notin DOMAIN data
       THEN \/ /\ outcome' = "saved"
               /\ pc' = "finally"
               /\ escaped' = escaped
            \/ Fatal
       ELSE /\ outcome' = "no_urls"
            /\ pc' = "finally"
            /\ escaped' = escaped
    /\ UNCHANGED <<resourceVars, links, investor_urls, loopVars, scrapeVars, data>>

\* finally: crawler.cleanup()
MainFinally ==
    /\ pc = "finally"
    /\ Cleanup
    /\ pc' = "exited"
    /\ UNCHANGED <<links, investor_urls, loopVars, scrapeVars, data, outcome, escaped>>

\* the statements of the try block of main() at which a KeyboardInterrupt
\* propagates to main(); the wait of scrape_investor_data is not one of
\* them, its bare except swallows the interrupt
InterruptPoints ==
    {"main", "c_setup", "c_get", "c_wait", "c_links", "c_return", "loop",
     "s_setup", "s_get", "s_fallback", "s_soup", "s_name", "s_industries",
     "s_stages", "s_check_range", "s_geography", "s_bio", "s_contacts",
     "s_contact_info", "s_status", "s_return", "sleep", "main_result"}

\* Ctrl-C while the try block of main() runs
Interrupt ==
    /\ pc \in InterruptPoints
    /\ Interrupted
    /\ UNCHANGED <<resourceVars, links, investor_urls, loopVars, scrapeVars, data>>

\* ------------------------------------------------------------------------
\* scrape_investor_data
\* ------------------------------------------------------------------------

\* ErrorRecord that leaves the status as it was
ErrorRecordNoStatus(record, msg) == [error |-> msg] @@ record

\* ErrorRecord that starts again from the defaults
ErrorRecordRolledBack(record, msg) ==
    [error |-> msg] @@ [DefaultRecord(record.url) EXCEPT !.status = "error"]

\* the record the except clause returns: status and error are set, nothing
\* else is touched
ErrorRecord(record, msg) ==
    [error |-> msg] @@ [record EXCEPT !.status = "error"]

\* Raise without the except clause: the fault leaves scrape_investor_data
RaiseThrough(step) ==
    /\ Fatal
    /\ UNCHANGED <<investor_data, raised>>

\* "except Exception as e" of scrape_investor_data, for a fault of the
\* given step
Raise(step) ==
    /\ \E msg \in MessagesAt(step) :
          /\ investor_data' = ErrorRecord(investor_data, msg)
          /\ raised' = Append(raised, <<i, step, msg>>)
    /\ pc' = "s_return"
    /\ Quiet

\* a step that assigns nothing to the record
Pass(next) ==
    /\ pc' = next
    /\ Quiet
    /\ UNCHANGED <<investor_data, raised>>

\* a step that stores a field of the record
Store(record, next) ==
    /\ investor_data' = record
    /\ pc' = next
    /\ Quiet
    /\ UNCHANGED raised

\* if not self.driver: self.setup_driver()
ScrapeSetup ==
    /\ pc = "s_setup"
    /\ IF NeedsDriver(driver)
       THEN \/ SetupDriverOk /\ Pass("s_get")
            \/ Raise("s_setup") /\ UNCHANGED resourceVars
       ELSE Pass("s_get") /\ UNCHANGED resourceVars
    /\ UNCHANGED <<links, investor_urls, loopVars, soup, data>>

\* self.driver.get(url)
ScrapeGet ==
    /\ pc = "s_get"
    /\ \/ Pass("s_wait")
       \/ Raise("s_get")
    /\ UNCHANGED <<resourceVars, links, investor_urls, loopVars, soup, data>>

\* the wait for <main> and the sleep after it; whatever is raised here, a
\* timeout or a KeyboardInterrupt, is swallowed by the bare except, which
\* sleeps instead
ScrapeWait ==
    /\ pc = "s_wait"
    /\ \/ Pass("s_soup")
       \/ Pass("s_fallback")
    /\ UNCHANGED <<resourceVars, links, investor_urls, loopVars, soup, data>>

\* time.sleep(5) of the bare except
ScrapeFallback ==
    /\ pc = "s_fallback"
    /\ Pass("s_soup")
    /\ UNCHANGED <<resourceVars, links, investor_urls, loopVars, soup, data>>

\* soup = BeautifulSoup(self.driver.page_source, 'html.parser')
ScrapeSoup ==
    /\ pc = "s_soup"
    /\ \/ /\ \E page \in Pages : soup' = page
          /\ Pass("s_name")
       \/ /\ Raise("s_soup")
          /\ UNCHANGED soup
    /\ UNCHANGED <<resourceVars, links, investor_urls, loopVars, data>>

\* a or b or c or d of the name chain: the first non-empty text
FirstNonEmpty(texts) ==
    IF \E k \in 1..Len(texts) : texts[k] # ""
    THEN texts[CHOOSE k \in 1..Len(texts) :
                   /\ texts[k] # ""
                   /\ \A j \in 1..(k - 1) : texts[j] = ""]
    ELSE texts[Len(texts)]

ExtractName(page, url) ==
    FirstNonEmpty(<<page.h1, page.name_selector, page.investor_text, NameFromUrl(url)>>)

\* investor_data["name"] = ...
ScrapeName ==
    /\ pc = "s_name"
    /\ \/ Store([investor_data EXCEPT !.name = ExtractName(soup, investor_data.url)],
                "s_industries")
       \/ Raise("s_name")
    /\ UNCHANGED <<resourceVars, links, investor_urls, loopVars, soup, data>>

\* investor_data["industries"] = self._extract_industries(soup)
ScrapeIndustries ==
    /\ pc = "s_industries"
    /\ \/ Store([investor_data EXCEPT !.industries = soup.industries], "s_stages")
       \/ Raise("s_industries")
    /\ UNCHANGED <<resourceVars, links, investor_urls, loopVars, soup, data>>

\* stages_content and investor_data["stages"]
ScrapeStages ==
    /\ pc = "s_stages"
    /\ \/ LET stages_content == ExtractStructuredField(soup.dom, StagesLabel)
          IN  IF stages_content # <<>>
              THEN Store([investor_data EXCEPT !.stages = ParseListField(stages_content)],
                         "s_check_range")
              ELSE Pass("s_check_range")
       \/ Raise("s_stages")
    /\ UNCHANGED <<resourceVars, links, investor_urls, loopVars, soup, data>>

\* check_range_content and investor_data["check_range"]
ScrapeCheckRange ==
    /\ pc = "s_check_range"
    /\ \/ LET check_range_content == ExtractStructuredField(soup.dom, CheckRangeLabel)
          IN  IF check_range_content # <<>>
              THEN Store([investor_data EXCEPT !.check_range = Strip(check_range_content)],
                         "s_geography")
              ELSE Pass("s_geography")
       \/ Raise("s_check_range")
    /\ UNCHANGED <<resourceVars, links, investor_urls, loopVars, soup, data>>

\* geography_content and investor_data["geography"]
ScrapeGeography ==
    /\ pc = "s_geography"
    /\ \/ LET geography_content == ExtractStructuredField(soup.dom, GeographyLabel)
          IN  IF geography_content # <<>>
              THEN Store([investor_data EXCEPT !.geography = ParseListField(geography_content)],
                         "s_bio")
              ELSE Pass("s_bio")
       \/ Raise("s_geography")
    /\ UNCHANGED <<resourceVars, links, investor_urls, loopVars, soup, data>>

\* if bio_content and len(bio_content) > 50
BioAccepted(bio_content) == bio_content # <<>> /\ Len(bio_content) > BioMinLen

\* bio_content and investor_data["bio"]
ScrapeBio ==
    /\ pc = "s_bio"
    /\ \/ LET bio_content == BioContent(soup.dom)
          IN  IF BioAccepted(bio_content)
              THEN Store([investor_data EXCEPT !.bio = bio_content], "s_contacts")
              ELSE Pass("s_contacts")
       \/ Raise("s_bio")
    /\ UNCHANGED <<resourceVars, links, investor_urls, loopVars, soup, data>>

\* the loop over the anchors and investor_data["contacts"] = personal_contacts
ScrapeContacts ==
    /\ pc = "s_contacts"
    /\ \/ Store([investor_data EXCEPT !.contacts = PersonalContacts(soup.anchors)],
                "s_contact_info")
       \/ Raise("s_contacts")
    /\ UNCHANGED <<resourceVars, links, investor_urls, loopVars, soup, data>>

\* investor_data["contact_info"] = self._extract_contact_info(soup)
ScrapeContactInfo ==
    /\ pc = "s_contact_info"
    /\ \/ Store([investor_data EXCEPT !.contact_info = soup.contact_info], "s_status")
       \/ Raise("s_contact_info")
    /\ UNCHANGED <<resourceVars, links, investor_urls, loopVars, soup, data>>

\* investor_data["status"] = "success"
ScrapeStatus ==
    /\ pc = "s_status"
    /\ Store([investor_data EXCEPT !.status = "success"], "s_return")
    /\ UNCHANGED <<resourceVars, links, investor_urls, loopVars, soup, data>>

Scrape ==
    \/ ScrapeSetup
    \/ ScrapeGet
    \/ ScrapeWait
    \/ ScrapeFallback
    \/ ScrapeSoup
    \/ ScrapeName
    \/ ScrapeIndustries
    \/ ScrapeStages
    \/ ScrapeCheckRange
    \/ ScrapeGeography
    \/ ScrapeBio
    \/ ScrapeContacts
    \/ ScrapeContactInfo
    \/ ScrapeStatus

\* ------------------------------------------------------------------------
\* The run of main()
\* ------------------------------------------------------------------------

Next ==
    \/ MainStart
    \/ CollectSetup
    \/ CollectGet
    \/ CollectWait
    \/ CollectLinks
    \/ CrawlCollected
    \/ CrawlNext
    \/ Scrape
    \/ CrawlRecord
    \/ CrawlSleep
    \/ CrawlSummary
    \/ MainResult
    \/ MainFinally
    \/ Interrupt

Spec == Init /\ [][Next]_vars

\* ------------------------------------------------------------------------
\* The collector on its own: every directory page of up to MaxAnchors
\* anchors, loaded and about to be scanned
\* ------------------------------------------------------------------------

InitCollect ==
    /\ pc = "c_links"
    /\ driver = "Chrome"
    /\ created = 1
    /\ open = 1
    /\ links \in SeqsUpTo(Hrefs, MaxAnchors)
    /\ investor_urls = <<>>
    /\ i = 0
    /\ investor_data = NoRecord
    /\ soup = NoPage
    /\ investors_data = <<>>
    /\ successful_scrapes = 0
    /\ failed_scrapes = 0
    /\ sleeps = 0
    /\ scraped = <<>>
    /\ raised = <<>>
    /\ data = NoResult
    /\ outcome = "running"
    /\ escaped = "none"

NextCollect == CollectLinks

SpecCollect == InitCollect /\ [][NextCollect]_vars

\* ------------------------------------------------------------------------
\* Properties
\* ------------------------------------------------------------------------

\* crawl_all_investors has returned its summary
SummaryReturned == "metadata" \in DOMAIN data

\* the statements of scrape_investor_data, in program order
ScrapeSteps ==
    <<"s_setup", "s_get", "s_wait", "s_fallback", "s_soup", "s_name",
      "s_industries", "s_stages", "s_check_range", "s_geography", "s_bio",
      "s_contacts", "s_contact_info", "s_status">>

StepIndex(step) == CHOOSE k \in 1..Len(ScrapeSteps) : ScrapeSteps[k] = step

InScrape == InList(pc, ScrapeSteps)

\* the loop of crawl_all_investors is running
InLoop == InScrape \/ pc \in {"loop", "s_return", "sleep"}

\* C1: when the collector returned n >= 1 addresses, the summary reports
\* total = n and successes + failures = n and holds n records, and at every
\* point of the loop successes + failures is the number of records appended.
C1_SummaryCounts ==
    /\ InLoop =>
          /\ successful_scrapes + failed_scrapes = Len(investors_data)
          /\ Len(investors_data) <= Len(investor_urls)
    /\ SummaryReturned =>
          /\ Len(investor_urls) >= 1
          /\ data.metadata.total_investors = Len(investor_urls)
          /\ data.metadata.successful_scrapes + data.metadata.failed_scrapes
                = Len(investor_urls)
          /\ Len(data.investors) = Len(investor_urls)

C1_Witness ==
    /\ SummaryReturned
    /\ data.metadata.total_investors = 2
    /\ data.metadata.successful_scrapes = 1
    /\ data.metadata.failed_scrapes = 1

\* C2: a fault inside scrape_investor_data never leaves it: the record of
\* that address has status error, the addresses are extracted once each in
\* collection order, and a run that is not interrupted extracts all of them
\* and returns the summary.
C2_FaultsStayInRecord ==
    /\ \A k \in 1..Len(raised) :
          /\ raised[k][1] <= Len(investors_data) =>
                investors_data[raised[k][1]].status = "error"
          /\ raised[k][1] > Len(investors_data) =>
                /\ raised[k][1] = i
                /\ investor_data.status = "error"
    /\ escaped \notin {ScrapeSteps[k] : k \in 1..Len(ScrapeSteps)} \/ outcome = "interrupted"
    /\ scraped = SubSeq(investor_urls, 1, i)
    /\ Len(investors_data) \in {i - 1, i}
    /\ (outcome \in {"saved", "fatal"} /\ investor_urls # <<>>) =>
          /\ SummaryReturned
          /\ scraped = investor_urls
          /\ Len(data.investors) = Len(investor_urls)

C2_Witness ==
    /\ outcome = "saved"
    /\ Len(investor_urls) = 2
    /\ Len(raised) = 1
    /\ raised[1][1] = 1
    /\ data.investors[1].status = "error"
    /\ data.investors[2].status = "success"

\* the collector has returned an empty list to crawl_all_investors, which
\* has returned in turn
EmptyReturned ==
    /\ investor_urls = <<>>
    /\ pc \in {"main_result", "finally", "exited"}
    /\ outcome \in {"running", "no_urls"}

\* C3 as stated: the result of a run that collected no address reports
\* total = 0.
C3_EmptyResultHasTotal ==
    EmptyReturned =>
        /\ "metadata" \in DOMAIN data
        /\ data.metadata.total_investors = 0

\* C3: when the collector yields no address, crawl_all_investors returns
\* the result {"error": "No URLs found"}, which carries no metadata, no
\* extraction call is made, and the success rate is never computed with a
\* zero divisor.
C3_EmptyTerminal ==
    /\ escaped # "zero_division"
    /\ (investor_urls = <<>> /\ pc \notin {"main", "c_setup", "c_get", "c_wait", "c_links"}) =>
          /\ scraped = <<>>
          /\ investors_data = <<>>
          /\ ~SummaryReturned
          /\ pc \notin {"loop", "sleep", "s_return"} /\ ~InScrape
    /\ EmptyReturned => data = NoUrlsResult
    /\ SummaryReturned => data.metadata.total_investors > 0

C3_Witness ==
    /\ pc = "exited"
    /\ outcome = "no_urls"
    /\ data = NoUrlsResult
    /\ created = 1
    /\ scraped = <<>>

\* C4: when main() has exited, on whatever path, every browser that was
\* started has been quit.
C4_ReleasedOnExit ==
    /\ pc = "exited" => open = 0
    /\ open \in {0, 1}
    /\ (driver = "None") = (created = 0)

C4_Witness ==
    /\ pc = "exited"
    /\ outcome = "interrupted"
    /\ escaped = "sleep"
    /\ created = 1
    /\ open = 0

\* the statements that acquire the rendering resource or load a page in it
ResourceSteps == {"c_setup", "c_get", "s_setup", "s_get"}

\* C5 as stated: a failure of the rendering resource during an extraction
\* is never downgraded to a record with status error.
C5_ResourceFaultsAreFatal ==
    \A k \in 1..Len(raised) : raised[k][2] \notin ResourceSteps

\* a record as scrape_investor_data may return it
Finished(record) ==
    /\ record.status \in {"success", "error"}
    /\ ("error" \in DOMAIN record) = (record.status = "error")

\* C6: every record scrape_investor_data returns has status success or
\* error, carries the error field exactly when its status is error, and no
\* pending record is ever appended to investors_data.
C6_NoPendingRecord ==
    /\ pc = "s_return" => Finished(investor_data)
    /\ \A k \in 1..Len(investors_data) : Finished(investors_data[k])
    /\ InScrape => investor_data.status = "pending" /\ "error" \notin DOMAIN investor_data

C6_Witness ==
    /\ Len(investors_data) = 2
    /\ investors_data[1].status = "success"
    /\ investors_data[2].status = "error"
    /\ "error" \in DOMAIN investors_data[2]
    /\ "error" \notin DOMAIN investors_data[1]

\* the anchors of the page the collector keeps, by position
KeptAt(k) == IsInvestorLink(links[k])

\* the position of the first kept anchor that resolves to the address
FirstAt(url) ==
    CHOOSE k \in 1..Len(links) :
        /\ KeptAt(k)
        /\ FullUrl(links[k]) = url
        /\ \A j \in 1..(k - 1) : ~(KeptAt(j) /\ FullUrl(links[j]) = url)

\* C7: the collector's output holds no address twice, holds exactly the
\* addresses of the kept anchors, in the order of their first occurrence on
\* the page, and is empty when no anchor is kept.
C7_DistinctFirstSeen ==
    pc = "c_return" =>
        /\ \A j, k \in 1..Len(investor_urls) :
              investor_urls[j] = investor_urls[k] => j = k
        /\ {investor_urls[k] : k \in 1..Len(investor_urls)}
              = {FullUrl(links[k]) : k \in {j \in 1..Len(links) : KeptAt(j)}}
        /\ \A j, k \in 1..Len(investor_urls) :
              j < k => FirstAt(investor_urls[j]) < FirstAt(investor_urls[k])
        /\ (\A k \in 1..Len(links) : ~KeptAt(k)) => investor_urls = <<>>

C7_Witness ==
    /\ pc = "c_return"
    /\ links = <<HrefRelB, HrefAbsA, HrefRelA>>
    /\ investor_urls = <<base_url \o HrefRelB, HrefAbsA>>

\* C8: every address the collector returns starts with the base address
\* followed by the detail-page segment and is not the directory address.
C8_UnderBaseAddress ==
    pc = "c_return" =>
        \A k \in 1..Len(investor_urls) :
            /\ StartsWith(investor_urls[k], base_url \o detail_segment)
            /\ investor_urls[k] # base_url \o directory_path

\* C9: before extraction k starts the driver has slept k - 1 times; it
\* sleeps only after the record of an extraction that is not the last has
\* been appended and counted; a run over n addresses sleeps n - 1 times.
C9_DelayBetweenExtractions ==
    /\ (InScrape \/ pc = "s_return") => sleeps = i - 1
    /\ pc = "sleep" =>
          /\ i < Len(investor_urls)
          /\ Len(investors_data) = i
          /\ successful_scrapes + failed_scrapes = i
          /\ sleeps = i - 1
    /\ pc = "loop" => sleeps = (IF i < Len(investor_urls) THEN i ELSE i - 1)
    /\ SummaryReturned => sleeps = Len(investor_urls) - 1

C9_Witness ==
    /\ SummaryReturned
    /\ Len(investor_urls) = 2
    /\ sleeps = 1
    /\ data.investors[1].status = "error"

\* the statement that stores each field of the record
FieldStep ==
    [name |-> "s_name", industries |-> "s_industries", stages |-> "s_stages",
     check_range |-> "s_check_range", geography |-> "s_geography",
     bio |-> "s_bio", contacts |-> "s_contacts",
     contact_info |-> "s_contact_info"]

\* the record of the k-th fault: appended, or about to be returned
RecordOfFault(k) ==
    IF raised[k][1] <= Len(investors_data)
    THEN investors_data[raised[k][1]]
    ELSE investor_data

C10_ErrorRecords ==
    \A k \in 1..Len(raised) :
        LET record == RecordOfFault(k)
            step == raised[k][2]
        IN  /\ record.status = "error"
            /\ record.error = raised[k][3]
            /\ record.url = investor_urls[raised[k][1]]
            /\ \A f \in DOMAIN FieldStep :
                  StepIndex(FieldStep[f]) >= StepIndex(step) =>
                      record[f] = DefaultRecord(record.url)[f]

C10_NoRollback ==
    (InScrape /\ pc' \in {"s_return"} \cup {ScrapeSteps[k] : k \in 1..Len(ScrapeSteps)}) =>
        /\ investor_data'.url = investor_data.url
        /\ \A f \in DOMAIN FieldStep :
              StepIndex(FieldStep[f]) < StepIndex(pc) =>
                  investor_data'[f] = investor_data[f]

\* C10: a record returned after a fault has status error, the message of
\* the fault as its error and the input address as its url; its fields the
\* fault came before hold their defaults, and no step of the call, the
\* handling of the fault included, changes a field stored by an earlier step.
C10_PartialRecordKept == []C10_ErrorRecords /\ [][C10_NoRollback]_vars

C10_Witness ==
    /\ Len(raised) = 1
    /\ raised[1] = <<1, "s_bio", "AttributeError">>
    /\ Len(investors_data) = 1
    /\ investors_data[1].name = "Jane Doe"
    /\ investors_data[1].stages = <<<<"S", "e", "e", "d">>, <<"A", "1">>>>
    /\ investors_data[1].check_range = <<"$", "1", "k">>
    /\ investors_data[1].bio = <<>>
    /\ investors_data[1].contacts = DefaultContacts
    /\ investors_data[1].error = "AttributeError"

\* what the statements of scrape_investor_data store in the fields of the
\* record when none of them fails
Extracted(page, url) ==
    LET stages_content == ExtractStructuredField(page.dom, StagesLabel)
        check_range_content == ExtractStructuredField(page.dom, CheckRangeLabel)
        geography_content == ExtractStructuredField(page.dom, GeographyLabel)
    IN  [name |-> ExtractName(page, url),
         industries |-> page.industries,
         stages |-> IF stages_content # <<>>
                    THEN ParseListField(stages_content) ELSE <<>>,
         check_range |-> IF check_range_content # <<>>
                         THEN Strip(check_range_content) ELSE <<>>,
         geography |-> IF geography_content # <<>>
                       THEN ParseListField(geography_content) ELSE <<>>,
         bio |-> LET bio_content == BioContent(page.dom)
                 IN  IF BioAccepted(bio_content) THEN bio_content ELSE <<>>,
         contacts |-> PersonalContacts(page.anchors),
         contact_info |-> page.contact_info]

\* the fields whose statement comes after the given statement
FieldsAfter(step) ==
    {f \in DOMAIN FieldStep : StepIndex(FieldStep[f]) > StepIndex(step)}

AnchorMailJ == Anchor(<<"m", "a", "i", "l", "t", "o", ":", "j", "@", "x", ".", "c", "o", "m">>,
    <<"E", "m", "a", "i", "l">>)
AnchorMailK == Anchor(<<"m", "a", "i", "l", "t", "o", ":", "k", "@", "y", ".", "i", "o">>,
    <<>>)
AnchorLinkedinJ == Anchor(<<"h", "t", "t", "p", "s", ":", "/", "/", "l", "i", "n", "k", "e", "d", "i", "n", ".", "c", "o", "m", "/", "i", "n", "/", "j">>,
    <<"i", "n">>)
AnchorLinkedinK == Anchor(<<"h", "t", "t", "p", "s", ":", "/", "/", "l", "i", "n", "k", "e", "d", "i", "n", ".", "c", "o", "m", "/", "i", "n", "/", "k">>,
    <<>>)
AnchorTwitterJ == Anchor(<<"h", "t", "t", "p", "s", ":", "/", "/", "t", "w", "i", "t", "t", "e", "r", ".", "c", "o", "m", "/", "j">>,
    <<>>)
AnchorXK == Anchor(<<"h", "t", "t", "p", "s", ":", "/", "/", "x", ".", "c", "o", "m", "/", "k">>,
    <<>>)
AnchorXMercury == Anchor(<<"h", "t", "t", "p", "s", ":", "/", "/", "x", ".", "c", "o", "m", "/", "m", "e", "r", "c", "u", "r", "y">>,
    <<"X">>)
AnchorBlogJ == Anchor(<<"h", "t", "t", "p", "s", ":", "/", "/", "j", ".", "d", "e", "v">>,
    <<"M", "y", " ", "B", "l", "o", "g">>)
AnchorSiteK == Anchor(<<"h", "t", "t", "p", "s", ":", "/", "/", "k", ".", "d", "e", "v">>,
    <<"P", "e", "r", "s", "o", "n", "a", "l", " ", "W", "e", "b", "s", "i", "t", "e">>)
AnchorHomeJ == Anchor(<<"h", "t", "t", "p", "s", ":", "/", "/", "j", ".", "d", "e", "v">>,
    <<"H", "o", "m", "e">>)
AnchorMercuryBlog == Anchor(<<"h", "t", "t", "p", "s", ":", "/", "/", "m", "e", "r", "c", "u", "r", "y", ".", "c", "o", "m", "/", "b", "l", "o", "g">>,
    <<"B", "l", "o", "g">>)
AnchorMercuryMail == Anchor(<<"m", "a", "i", "l", "t", "o", ":", "h", "@", "m", "e", "r", "c", "u", "r", "y", ".", "c", "o", "m">>,
    <<"H", "e", "l", "p">>)

ContactAnchors ==
    {AnchorMailJ, AnchorMailK, AnchorLinkedinJ, AnchorLinkedinK,
     AnchorTwitterJ, AnchorXK, AnchorXMercury, AnchorBlogJ,
     AnchorSiteK, AnchorHomeJ, AnchorMercuryBlog, AnchorMercuryMail}

\* the record of an extraction of the page that has come to the given
\* statement without a fault
RecordAt(step, page, url) ==
    LET extracted == Extracted(page, url)
        default == DefaultRecord(url)
    IN  [f \in DOMAIN default |->
            IF f \in DOMAIN FieldStep /\ StepIndex(FieldStep[f]) < StepIndex(step)
            THEN extracted[f]
            ELSE default[f]]

\* the first extraction of a run over one address has come to the given
\* statement, on one of the given pages
InitAt(step, pages) ==
    /\ pc = step
    /\ driver = "Chrome"
    /\ created = 1
    /\ open = 1
    /\ links = <<>>
    /\ investor_urls = <<FullUrl(HrefRelA)>>
    /\ i = 1
    /\ soup \in pages
    /\ investor_data = RecordAt(step, soup, FullUrl(HrefRelA))
    /\ investors_data = <<>>
    /\ successful_scrapes = 0
    /\ failed_scrapes = 0
    /\ sleeps = 0
    /\ scraped = <<FullUrl(HrefRelA)>>
    /\ raised = <<>>
    /\ data = NoResult
    /\ outcome = "running"
    /\ escaped = "none"

InitContacts ==
    InitAt("s_contacts", {[FullPage EXCEPT !.anchors = a] : a \in SeqsUpTo(ContactAnchors, MaxContactLinks)})

NextContacts == ScrapeContacts

SpecContacts == InitContacts /\ [][NextContacts]_vars

\* the positions of the anchors that store under the key
StoringAt(anchors, key) == {k \in 1..Len(anchors) : Category(anchors[k]) = key}

\* the sequence without its k-th element
Without(seq, k) == SubSeq(seq, 1, k - 1) \o SubSeq(seq, k + 1, Len(seq))

TextAlphabet == {"a", "b", " ", ",", ";", "\n", "BULLET"}

SeedExample == <<"S", "e", "e", "d", ",", " ", "S", "e", "r", "i", "e", "s", " ", "A", ";", " ", "S", "e", "r", "i", "e", "s", " ", "B">>

\* the paragraphs of up to n characters, and the example
StagesTexts(n) == SeqsUpTo(TextAlphabet, n) \cup {SeedExample}

\* a page with the given paragraph under its Stages heading
StagesPage(text) ==
    [FullPage EXCEPT !.dom = <<Node("h3", "marker", StagesLabel, 0),
                               Node("p", "", text, 0)>>]

InitParse == InitAt("s_stages", {StagesPage(text) : text \in StagesTexts(MaxTextLen)})

NextParse == ScrapeStages

SpecParse == InitParse /\ [][NextParse]_vars

\* the k-th least element of a set of numbers
Nth(set, k) == CHOOSE n \in set : Cardinality({m \in set : m < n}) = k - 1

\* the pieces of a text between its delimiters, by position
PiecesOf(text) ==
    LET at == {k \in 1..Len(text) : text[k] \in Delimiters}
        cut == [j \in 0..(Cardinality(at) + 1) |->
                   IF j = 0 THEN 0
                   ELSE IF j = Cardinality(at) + 1 THEN Len(text) + 1
                   ELSE Nth(at, j)]
    IN  [j \in 1..(Cardinality(at) + 1) |->
            SubSeq(text, cut[j - 1] + 1, cut[j] - 1)]

\* the items joined into one text, with the separator between them
RECURSIVE JoinItems(_, _)
JoinItems(items, separator) ==
    IF items = <<>> THEN <<>>
    ELSE IF Len(items) = 1 THEN items[1]
    ELSE items[1] \o separator \o JoinItems(Tail(items), separator)

\* the ways to write a list: one delimiter, with or without a space
Separators == {<<d>> : d \in Delimiters} \cup {<<d, " ">> : d \in Delimiters}

\* C13: every item the list parser returns is trimmed, longer than one
\* character and free of delimiters; the items are the trimmed pieces of the
\* text that are longer than one character, in the order of the text; and
\* parsing the items joined by a delimiter gives the items again.
C13_ParseIdempotent ==
    (pc = "s_check_range" /\ raised = <<>>) =>
        LET text == Strip(soup.dom[2].text)
            items == investor_data.stages
            pieces == PiecesOf(text)
            kept == {k \in 1..Len(pieces) : Len(Strip(pieces[k])) > 1}
        IN  /\ \A k \in 1..Len(items) :
                  /\ Strip(items[k]) = items[k]
                  /\ Len(items[k]) > 1
                  /\ \A c \in 1..Len(items[k]) : items[k][c] \notin Delimiters
            /\ Len(items) = Cardinality(kept)
            /\ \A k \in 1..Len(items) : items[k] = Strip(pieces[Nth(kept, k)])
            /\ \A separator \in Separators :
                  ParseListField(JoinItems(items, separator)) = items

C13_Witness ==
    /\ pc = "s_check_range"
    /\ soup.dom[2].text = SeedExample
    /\ investor_data.stages = <<<<"S", "e", "e", "d">>, <<"S", "e", "r", "i", "e", "s", " ", "A">>, <<"S", "e", "r", "i", "e", "s", " ", "B">>>>

\* ------------------------------------------------------------------------
\* The field locator on its own: an extraction that has come to the check
\* range, on every page of up to MaxNodes elements
\* ------------------------------------------------------------------------

\* the elements a page is built of, before they are given a parent
NodeKinds ==
    {Node("div", "", <<>>, 0),
     Node("h3", "marker", CheckRangeLabel, 0),
     Node("h3", "marker", <<" ", "C", "H", "E", "C", "K", " ", "r", "a", "n", "g", "e", " ">>, 0),
     Node("h3", "marker", <<"C", "h", "e", "c", "k">>, 0),
     Node("h3", "", CheckRangeLabel, 0),
     Node("p", "", <<"$", "1", "k">>, 0),
     Node("p", "", <<" ", "$", "5", "k">>, 0)}

\* the elements that may follow in document order: children of the top or
\* of a div that is still open
NextNodes(dom) ==
    LET open_divs == IF dom = <<>> THEN {0}
                     ELSE {k \in AncestorsOrSelf(dom, Len(dom)) :
                              k = 0 \/ dom[k].tag = "div"}
    IN  {[kind EXCEPT !.parent = k] : kind \in NodeKinds, k \in open_divs}

\* the pages of exactly n elements
RECURSIVE DomsOf(_)
DomsOf(n) ==
    IF n = 0 THEN {<<>>}
    ELSE UNION {{Append(dom, node) : node \in NextNodes(dom)} : dom \in DomsOf(n - 1)}

\* the pages of up to n elements
DomsUpTo(n) == UNION {DomsOf(k) : k \in 0..n}

\* a page with the given elements
DomPage(dom) == [FullPage EXCEPT !.dom = dom]

InitLocate == InitAt("s_check_range", {DomPage(dom) : dom \in DomsUpTo(MaxNodes)})

NextLocate == ScrapeCheckRange

SpecLocate == InitLocate /\ [][NextLocate]_vars

\* the first marker heading of the page whose text is the label, 0 if none
FirstMatching(dom, field_name) ==
    FirstOf({k \in 1..Len(dom) :
                /\ dom[k].tag = "h3"
                /\ dom[k].cls = "marker"
                /\ Lower(Strip(dom[k].text)) = Lower(field_name)})

\* the text of the first paragraph among the later siblings of the element
\* or, without one, of the first paragraph after the start of its parent
ParagraphTextOf(dom, k) ==
    LET siblings == {j \in (k + 1)..Len(dom) :
                        dom[j].tag = "p" /\ dom[j].parent = dom[k].parent}
        forward == {j \in (dom[k].parent + 1)..Len(dom) : dom[j].tag = "p"}
    IN  IF siblings # {} THEN Strip(dom[FirstOf(siblings)].text)
        ELSE IF forward # {} THEN Strip(dom[FirstOf(forward)].text)
        ELSE <<>>

\* C14: the check range is the paragraph of the first marker heading whose
\* text is the label: that of a later heading with the same text is never
\* used, and it is empty when no heading matches.
C14_FirstHeadingOnly ==
    (pc = "s_geography" /\ raised = <<>>) =>
        LET first == FirstMatching(soup.dom, CheckRangeLabel)
        IN  investor_data.check_range =
                IF first = 0 THEN <<>> ELSE ParagraphTextOf(soup.dom, first)

\* ------------------------------------------------------------------------
\* The methods called one by one on one crawler, as the scripts beside the
\* crawler do: up to MaxCalls calls of collect_investor_urls and of
\* scrape_investor_data in any order, then cleanup
\* ------------------------------------------------------------------------

InitCalls ==
    /\ pc = "idle"
    /\ driver = "None"
    /\ created = 0
    /\ open = 0
    /\ links = <<>>
    /\ investor_urls = <<>>
    /\ i = 0
    /\ investor_data = NoRecord
    /\ soup = NoPage
    /\ investors_data = <<>>
    /\ successful_scrapes = 0
    /\ failed_scrapes = 0
    /\ sleeps = 0
    /\ scraped = <<>>
    /\ raised = <<>>
    /\ data = NoResult
    /\ outcome = "running"
    /\ escaped = "none"

\* the addresses a caller extracts: one it knows and those it has collected
CallUrls == {FullUrl(HrefRelA)} \cup {investor_urls[k] : k \in 1..Len(investor_urls)}

\* urls = crawler.collect_investor_urls()
CallCollect ==
    /\ pc = "idle"
    /\ i < MaxCalls
    /\ i' = i + 1
    /\ pc' = "c_setup"
    /\ UNCHANGED <<resourceVars, links, investor_urls, investors_data,
                   successful_scrapes, failed_scrapes, sleeps, scraped,
                   scrapeVars, data, outcome, escaped>>

\* the collector returns to its caller
ReturnCollect ==
    /\ pc = "c_return"
    /\ links' = <<>>
    /\ pc' = "idle"
    /\ UNCHANGED <<resourceVars, investor_urls, loopVars, scrapeVars, data, outcome, escaped>>

\* investor_data = crawler.scrape_investor_data(url)
CallScrape ==
    /\ pc = "idle"
    /\ i < MaxCalls
    /\ i' = i + 1
    /\ \E url \in CallUrls :
          /\ investor_data' = DefaultRecord(url)
          /\ scraped' = Append(scraped, url)
    /\ soup' = NoPage
    /\ pc' = "s_setup"
    /\ UNCHANGED <<resourceVars, links, investor_urls, investors_data,
                   successful_scrapes, failed_scrapes, sleeps, raised, data,
                   outcome, escaped>>

\* the extraction returns its record to its caller
ReturnScrape ==
    /\ pc = "s_return"
    /\ pc' = "idle"
    /\ UNCHANGED <<resourceVars, links, investor_urls, loopVars, scrapeVars, data, outcome, escaped>>

\* the caller has made its calls: it goes to its finally clause
CallsDone ==
    /\ pc = "idle"
    /\ pc' = "finally"
    /\ outcome' = "saved"
    /\ UNCHANGED <<resourceVars, links, investor_urls, loopVars, scrapeVars, data, escaped>>

NextCalls ==
    \/ CallCollect
    \/ CollectSetup
    \/ CollectGet
    \/ CollectWait
    \/ CollectLinks
    \/ ReturnCollect
    \/ CallScrape
    \/ Scrape
    \/ ReturnScrape
    \/ CallsDone
    \/ MainFinally

SpecCalls == InitCalls /\ [][NextCalls]_vars

\* the driver is held and the step neither replaces it nor starts a browser
DriverKept == driver # "None" => (driver' = driver /\ created' = created)

\* C15: across the calls made on one crawler a browser is started only while
\* no driver is held: at most one is ever started, a driver is held exactly
\* when one was started, and once held it serves every later call.
C15_SingleDriver ==
    /\ [](created <= 1 /\ (driver = "None" <=> created = 0))
    /\ [][DriverKept]_vars

\* a collection has returned addresses and the extraction called after it
\* loads its page with the browser the collection started
C15_Witness ==
    /\ pc = "s_get"
    /\ i = 2
    /\ investor_urls # <<>>
    /\ driver = "Chrome"
    /\ created = 1

====
